---------------------------- MODULE Spec2Model ----------------------------
(***************************************************************************)
(* Model of the request facade of nginx-rs (src/nginx-rs/src/http/         *)
(* request.rs): the header reads (get_header, get_header_names,            *)
(* user_agent), the header write (set_header) and remote_address.          *)
(*                                                                         *)
(* Bytes are the integers 0..255 and a text is a sequence of bytes.  A     *)
(* pointer to bytes is modelled by the bytes of the allocation it points   *)
(* at; a pointer to a list part is the index of the part in the list's     *)
(* part memory (0 is the null pointer, 1 the part embedded in the list).   *)
(* A read of uninitialised memory or past the end of an allocation is a    *)
(* choice among the outcomes it can have, so the operations that can do    *)
(* it return the SET of their possible outcomes.                           *)
(***************************************************************************)
EXTENDS Integers, Sequences, FiniteSets, TLC

VARIABLES headers_in, headers_out, connection, pool, layout, last

vars == <<headers_in, headers_out, connection, pool, layout, last>>

---------------------------------------------------------------------------
(* Bounds of the model. *)

\* entries a part of an inbound header list can hold (ngx_list_t.nalloc)
InCap == 2
\* parts of an inbound header list
MaxInParts == 2
\* entries a part of the outbound header list can hold (ngx_list_t.nalloc)
OutCap == 2
\* blocks the request pool hands out before the model stops allocating
MaxPool == 4

---------------------------------------------------------------------------
(* Texts. *)

NULL == 0

\* ngx_str_t { len, data }: data is modelled by the bytes it points at
Str(bytes) == [len |-> Len(bytes), data |-> bytes]

\* the bytes a view covers (every view of the model lies inside its
\* allocation: len <= Len(data))
StrBytes(s) == SubSeq(s.data, 1, s.len)

\* Option<String>
None == [some |-> FALSE, val |-> <<>>]
Some(s) == [some |-> TRUE, val |-> s]

\* u8::to_ascii_lowercase, and the folding of ngx_strncasecmp
LowerByte(c) == IF c >= 65 /\ c <= 90 THEN c + 32 ELSE c

\* str::to_ascii_lowercase
ToAsciiLowercase(s) == [k \in 1..Len(s) |-> LowerByte(s[k])]

RECURSIVE Utf8Lossy(_)
\* String::from_utf8_lossy on the bytes the model uses: an ASCII byte is
\* kept, a byte that no UTF-8 sequence can hold (0xF5..0xFF) becomes U+FFFD,
\* whose UTF-8 form is EF BF BD.  (The bytes 0x80..0xF4, which need the
\* multi-byte decoder, are not in the model's alphabet and are treated as
\* invalid lone bytes as well.)  The text is decoded half by half.
Utf8Lossy(b) ==
    IF b = <<>> THEN <<>>
    ELSE IF Len(b) = 1 THEN (IF b[1] < 128 THEN b ELSE <<239, 191, 189>>)
    ELSE LET h == Len(b) \div 2
         IN  Utf8Lossy(SubSeq(b, 1, h)) \o Utf8Lossy(SubSeq(b, h + 1, Len(b)))

RECURSIVE Join(_)
\* [String]::join(" ")
Join(names) ==
    IF names = <<>> THEN <<>>
    ELSE IF Len(names) = 1 THEN names[1]
    ELSE names[1] \o <<32>> \o Join(Tail(names))

RECURSIVE NgxStrncasecmpFrom(_, _, _, _)
\* ngx_strncasecmp(s1, s2, n) from byte k on: the set of results it can
\* have (0: equal, 1: different).  s1 holds at least n bytes.  s2 is the
\* buffer of the queried name, which holds Len(s2) bytes and no terminator:
\* comparing byte k > Len(s2) reads past the end of that buffer, and the
\* byte found there may or may not equal the folded s1[k].
NgxStrncasecmpFrom(s1, s2, n, k) ==
    IF k > n THEN {0}
    ELSE IF k > Len(s2) THEN {0, 1}
    ELSE LET c1 == LowerByte(s1[k])
             c2 == LowerByte(s2[k])
         IN  IF c1 = c2
             THEN (IF c1 # 0 THEN NgxStrncasecmpFrom(s1, s2, n, k + 1) ELSE {0})
             ELSE {1}

NgxStrncasecmp(s1, s2, n) == NgxStrncasecmpFrom(s1, s2, n, 1)

---------------------------------------------------------------------------
(* Header entries and header lists. *)

\* ngx_table_elt_t { hash, key, value }
Elt(h, k, v) == [hash |-> h, key |-> k, value |-> v]

\* *const ngx_table_elt_t: null, or the entry pointed at
NullElt == [null |-> TRUE, at |-> Elt(0, Str(<<>>), Str(<<>>))]
PtrTo(e) == [null |-> FALSE, at |-> e]

\* A part, ngx_list_part_t { elts, nelts, next }, is a record of these three
\* fields, elts holding the initialised slots.  A list, ngx_list_t { last,
\* part, nalloc }, is a record [parts, last, nalloc]: parts[1] is the
\* embedded part, the other parts lie in the pool and are reached through
\* next, and last is the pointer the structure keeps to its last part.

\* a view whose pointer does not lead to len readable bytes
Wild(s) == s.len > Len(s.data)

\* what a slot beyond a part's nelts can hold: an entry left there earlier,
\* or bytes that are no entry at all
StaleElts ==
    { Elt(1, Str(<<97, 98>>), Str(<<115>>)),
      Elt(0, [len |-> 1, data |-> <<>>], [len |-> 1, data |-> <<>>]) }

\* *h.add(i): the entries the read of slot i of a part can yield
ReadElt(part, i) == IF i < part.nelts THEN {part.elts[i + 1]} ELSE StaleElts

\* one outcome of an operation: its result, the slots it read, and the
\* fault it ended in, if any
Outcome(ret, reads, fault) == [ret |-> ret, reads |-> reads, fault |-> fault]

\* a read of slot i of part p, which holds n entries
Read(p, i, n) == [part |-> p, index |-> i, nelts |-> n]

---------------------------------------------------------------------------
(* Header reads. *)

\* Request::get_value
GetValue(header) ==
    IF header.null
    THEN None
    ELSE LET value == Utf8Lossy(StrBytes(header.at.value))
         IN  IF value = <<>> THEN None ELSE Some(value)

RECURSIVE GetValueFromPartLoop(_, _, _, _, _)
\* the loop of Request::get_value_from_part, at slot i of part p
GetValueFromPartLoop(headers, p, i, name, reads) ==
    LET part == headers.parts[p]
    IN  IF i >= part.nelts /\ part.next = NULL
        THEN {Outcome(None, reads, "none")}
        ELSE LET q   == IF i >= part.nelts THEN part.next ELSE p
                 j   == IF i >= part.nelts THEN 0 ELSE i
                 cur == headers.parts[q]
                 rd  == Append(reads, Read(q, j, cur.nelts))
             IN  UNION { IF Wild(header.key)
                         THEN {Outcome(None, rd, "wild_read")}
                         ELSE UNION { IF c # 0
                                      THEN GetValueFromPartLoop(headers, q, j + 1, name, rd)
                                      ELSE IF Wild(header.value)
                                      THEN {Outcome(None, rd, "wild_read")}
                                      ELSE {Outcome(Some(Utf8Lossy(StrBytes(header.value))), rd, "none")}
                                      : c \in NgxStrncasecmp(header.key.data, name, header.key.len) }
                         : header \in ReadElt(cur, j) }

\* Request::get_value_from_part
GetValueFromPart(headers, header_name) ==
    GetValueFromPartLoop(headers, 1, 0, header_name, <<>>)

RECURSIVE GetHeaderNamesLoop(_, _, _, _, _)
\* the loop of Request::get_header_names, at slot i of part p
GetHeaderNamesLoop(headers, p, i, h_vec, reads) ==
    LET part == headers.parts[p]
    IN  IF i >= part.nelts /\ part.next = NULL
        THEN {Outcome(IF h_vec = <<>> THEN None ELSE Some(Join(h_vec)), reads, "none")}
        ELSE LET q   == IF i >= part.nelts THEN part.next ELSE p
                 j   == IF i >= part.nelts THEN 0 ELSE i
                 cur == headers.parts[q]
                 rd  == Append(reads, Read(q, j, cur.nelts))
             IN  UNION { IF Wild(header.key)
                         THEN {Outcome(None, rd, "wild_read")}
                         ELSE LET name == Utf8Lossy(StrBytes(header.key))
                              IN  GetHeaderNamesLoop(headers, q, j + 1,
                                      IF name # <<>> THEN Append(h_vec, name) ELSE h_vec, rd)
                         : header \in ReadElt(cur, j) }

\* Request::get_header_names, on a header list
HeaderNames(headers) == GetHeaderNamesLoop(headers, 1, 0, <<>>, <<>>)

\* the names get_header matches against its dedicated fields
HostName == <<104, 111, 115, 116>>
UserAgentName == <<117, 115, 101, 114, 45, 97, 103, 101, 110, 116>>
UserAgentAlias == <<117, 115, 101, 114, 95, 97, 103, 101, 110, 116>>
RefererName == <<114, 101, 102, 101, 114, 101, 114>>
AcceptLanguageName == <<97, 99, 99, 101, 112, 116, 45, 108, 97, 110, 103, 117, 97, 103, 101>>
AcceptLanguageAlias == <<97, 99, 99, 101, 112, 116, 95, 108, 97, 110, 103, 117, 97, 103, 101>>
ContentTypeName == <<99, 111, 110, 116, 101, 110, 116, 45, 116, 121, 112, 101>>
ContentTypeAlias == <<99, 111, 110, 116, 101, 110, 116, 95, 116, 121, 112, 101>>
ContentLengthName == <<99, 111, 110, 116, 101, 110, 116, 45, 108, 101, 110, 103, 116, 104>>
ContentLengthAlias == <<99, 111, 110, 116, 101, 110, 116, 95, 108, 101, 110, 103, 116, 104>>
AcceptName == <<97, 99, 99, 101, 112, 116>>

\* the dedicated field a folded name is served from, "" for none
DedicatedField(lower) ==
    IF lower = HostName THEN "host"
    ELSE IF lower \in {UserAgentName, UserAgentAlias} THEN "user_agent"
    ELSE IF lower = RefererName THEN "referer"
    ELSE IF lower \in {AcceptLanguageAlias, AcceptLanguageName} THEN "accept_language"
    ELSE IF lower \in {ContentTypeName, ContentTypeAlias} THEN "content_type"
    ELSE IF lower \in {ContentLengthName, ContentLengthAlias} THEN "content_length"
    ELSE IF lower = AcceptName THEN "accept"
    ELSE ""

\* Request::get_header: the outcomes of get_header(header) on request r
GetHeaderOutcomes(r, header) ==
    LET lower == ToAsciiLowercase(header)
        field == DedicatedField(lower)
    IN  IF field # ""
        THEN {Outcome(GetValue(r[field]), <<>>, "none")}
        ELSE GetValueFromPart(r.headers, lower)

\* Request::user_agent: the view of the dedicated field's value, read
\* through the field pointer whether or not it is null
UserAgentOutcome(r) ==
    IF r.user_agent.null
    THEN Outcome(None, <<>>, "null_deref")
    ELSE Outcome(Some(StrBytes(r.user_agent.at.value)), <<>>, "none")

---------------------------------------------------------------------------
(* The pool and the header write. *)

\* usize as its 8 little-endian bytes (values below 2^31)
UsizeBytes(n) == [k \in 1..8 |-> IF k <= 4 THEN (n \div (256 ^ (k - 1))) % 256 ELSE 0]

\* the address of the heap buffer a non-empty String owns, as 8 bytes; the
\* k-th String of the request gets a buffer of its own
HeapPtrBytes(k) == <<(16 * k) % 256, 42, 0, 129, 85, 85, 0, 0>>

\* the orders in which a build lays out the three words of a String
Layouts == { <<"ptr", "cap", "len">>, <<"cap", "ptr", "len">> }

\* name.to_string() as an object: the bytes of the String value itself, its
\* three words (buffer pointer, capacity, length) in the build's order.  The
\* text is in the heap buffer, not in the object; an empty String owns no
\* buffer and holds the dangling pointer 1.
StringRepr(s, k, lay) ==
    LET word(w) == IF w = "ptr"
                   THEN (IF Len(s) = 0 THEN UsizeBytes(1) ELSE HeapPtrBytes(k))
                   ELSE UsizeBytes(Len(s))
    IN  word(lay[1]) \o word(lay[2]) \o word(lay[3])

\* Pool::allocate::<T>(value): the pool with a block holding the bytes of
\* value; the pointer it returns is the pointer to that block
PoolAllocate(pl, bytes) == Append(pl, [size |-> Len(bytes), bytes |-> bytes])

\* ngx_list_push(l): the list after the push and the slot handed out
\* (part = NULL: the null pointer, when a part was needed and the pool gave
\* none).  A full last part gets a new part linked behind it, and l.last is
\* moved to the new part.
NgxListPush(l, ok) ==
    LET lastp == l.parts[l.last]
    IN  IF lastp.nelts # l.nalloc
        THEN [l |-> [l EXCEPT !.parts[l.last].nelts = @ + 1],
              part |-> l.last, index |-> lastp.nelts]
        ELSE IF ~ok
        THEN [l |-> l, part |-> NULL, index |-> 0]
        ELSE LET new == Len(l.parts) + 1
             IN  [l |-> [parts |-> Append([l.parts EXCEPT ![l.last].next = new],
                                          [elts |-> <<>>, nelts |-> 1, next |-> NULL]),
                         last |-> new,
                         nalloc |-> l.nalloc],
                  part |-> new, index |-> 0]

\* Request::set_header on the outbound list out: what it leaves behind.
\* fail names the allocation that fails, if any.  `headers` is a copy of the
\* list structure: the push works through the pointers of the copy, so what
\* it writes into the parts is written into the request, and what it writes
\* into the structure (last) is written into the copy and dropped.
SetHeaderResult(out, pl, lay, name, value, fail) ==
    LET pool1 == PoolAllocate(pl, StringRepr(name, Len(pl) + 1, lay))
        n     == pool1[Len(pool1)].bytes
        pool2 == PoolAllocate(pool1, StringRepr(value, Len(pl) + 2, lay))
        v     == pool2[Len(pool2)].bytes
        n_str == [len |-> Len(name), data |-> n]
        v_str == [len |-> Len(value), data |-> v]
        headers == out.headers
        pushed  == NgxListPush(headers, fail # "list")
    IN  IF fail = "name"
        THEN [out |-> out, pool |-> pl, fault |-> "null_deref"]
        ELSE IF fail = "value"
        THEN [out |-> out, pool |-> pool1, fault |-> "null_deref"]
        ELSE IF pushed.part = NULL
        THEN [out |-> out, pool |-> pool2, fault |-> "null_deref"]
        ELSE [out |-> [out EXCEPT !.headers.parts =
                          [pushed.l.parts EXCEPT ![pushed.part].elts =
                              Append(@, Elt(1, n_str, v_str))]],
              pool |-> pool2, fault |-> "none"]

---------------------------------------------------------------------------
(* The peer address. *)

IP_MAX_LEN == 128

RECURSIVE Decimal(_)
\* %ui of ngx_snprintf
Decimal(n) == IF n < 10 THEN <<48 + n>> ELSE Decimal(n \div 10) \o <<48 + (n % 10)>>

\* the first n bytes of s
Take(s, n) == SubSeq(s, 1, IF Len(s) < n THEN Len(s) ELSE n)

\* ngx_sock_ntop(sockaddr, socklen, buf, len, 1): the bytes written to buf,
\* at most len of them.  AF_INET is "a.b.c.d:port", AF_UNIX is "unix:" and
\* the bytes of the socket path, any other family is formatted to nothing.
NgxSockNtop(sa, len) ==
    IF sa.family = "inet"
    THEN Take(Decimal(sa.addr[1]) \o <<46>> \o Decimal(sa.addr[2]) \o <<46>>
              \o Decimal(sa.addr[3]) \o <<46>> \o Decimal(sa.addr[4])
              \o <<58>> \o Decimal(sa.port), len)
    ELSE IF sa.family = "unix"
    THEN Take(<<117, 110, 105, 120, 58>> \o sa.path, len)
    ELSE <<>>

\* remote_address without its test for an empty text (mutant)
RemoteAddressResult_NoEmptyTest(conn, pl, ok) ==
    IF ~ok
    THEN [ret |-> None, pool |-> pl, text |-> <<>>]
    ELSE LET s == NgxSockNtop(conn.sockaddr, IP_MAX_LEN)
         IN  [ret  |-> Some(Utf8Lossy(s)),
              pool |-> Append(pl, [size |-> IP_MAX_LEN, bytes |-> s]),
              text |-> s]

\* Request::remote_address: the result, and the pool it leaves.  ok says
\* whether ngx_pnalloc gave a buffer.
RemoteAddressResult(conn, pl, ok) ==
    IF ~ok
    THEN [ret |-> None, pool |-> pl, text |-> <<>>]
    ELSE LET s    == NgxSockNtop(conn.sockaddr, IP_MAX_LEN)
             addr == Utf8Lossy(s)
         IN  [ret  |-> IF addr = <<>> THEN None ELSE Some(addr),
              pool |-> Append(pl, [size |-> IP_MAX_LEN, bytes |-> s]),
              text |-> s]

---------------------------------------------------------------------------
(* The requests the model starts from. *)

\* headers_in of ngx_http_request_t: the dedicated fields and the list
Request(ded, list) ==
    [host |-> ded.host, user_agent |-> ded.user_agent, referer |-> ded.referer,
     accept_language |-> ded.accept_language, content_type |-> ded.content_type,
     content_length |-> ded.content_length, accept |-> ded.accept,
     headers |-> list]

DedFields ==
    {"host", "user_agent", "referer", "accept_language", "content_type",
     "content_length", "accept"}

\* no dedicated header was sent
NoDedicated == [f \in DedFields |-> NullElt]

\* the values a dedicated header is given: a text, nothing, a byte that is
\* not UTF-8
DedValues == { <<116>>, <<>>, <<255>> }

\* at most one dedicated header was sent
DedConfigs ==
    {NoDedicated} \cup
    { [NoDedicated EXCEPT ![f] = PtrTo(Elt(1, Str(<<120>>), Str(v)))] :
          f \in DedFields, v \in DedValues }

\* the entries of the inbound lists: "a: v", "A: w", "ab: <FF>", "b:"
InElts ==
    { Elt(1, Str(<<97>>), Str(<<118>>)),
      Elt(1, Str(<<65>>), Str(<<119>>)),
      Elt(1, Str(<<97, 98>>), Str(<<255>>)),
      Elt(1, Str(<<98>>), Str(<<>>)) }

\* the list whose parts hold the given sequences of entries, linked in order
MkList(seq, cap) ==
    [parts  |-> [k \in 1..Len(seq) |->
                    [elts |-> seq[k], nelts |-> Len(seq[k]),
                     next |-> IF k < Len(seq) THEN k + 1 ELSE NULL]],
     last   |-> Len(seq),
     nalloc |-> cap]

\* every list of at most maxParts parts of at most cap entries each
InLists(cap, maxParts) ==
    LET partElts == UNION { [1..n -> InElts] : n \in 0..cap }
    IN  { MkList(seq, cap) : seq \in UNION { [1..m -> partElts] : m \in 1..maxParts } }

\* the requests of the specification of the header reads
WideRequests(cap, maxParts) ==
    { Request(d, l) : d \in DedConfigs, l \in InLists(cap, maxParts) }

\* the requests of the full specification: no header at all; one part; a
\* User-Agent and two full parts, one entry without a name; a linked part
\* without entries
SmallRequests ==
    { Request(NoDedicated, MkList(<<<<>>>>, InCap)),
      Request(NoDedicated, MkList(<< <<Elt(1, Str(<<97>>), Str(<<118>>))>> >>, InCap)),
      Request([NoDedicated EXCEPT !.user_agent = PtrTo(Elt(1, Str(<<85, 65>>), Str(<<116>>)))],
              MkList(<< [k \in 1..InCap |-> Elt(1, Str(<<97>>), Str(<<118>>))],
                        <<Elt(1, Str(<<>>), Str(<<122>>)), Elt(1, Str(<<97, 98>>), Str(<<255>>))>> >>,
                     InCap)),
      Request(NoDedicated,
              MkList(<< <<Elt(1, Str(<<97>>), Str(<<118>>))>>, <<>> >>, InCap)) }

\* the names get_header is asked for
Queries ==
    { <<97>>, <<65>>, <<97, 98>>, <<65, 66>>, <<98>>,
      HostName, <<72, 111, 115, 116>>, <<72, 79, 83, 84>>,
      UserAgentName, UserAgentAlias, RefererName, AcceptLanguageAlias,
      ContentTypeName, ContentLengthAlias, AcceptName }

\* the headers set_header is given: "X-Test: v1" and "a:"
SetArgs ==
    { [name |-> <<88, 45, 84, 101, 115, 116>>, value |-> <<118, 49>>],
      [name |-> <<97>>, value |-> <<>>] }

\* the outbound list with n entries the host has put there
OutList(n) == MkList(<< [k \in 1..n |-> Elt(1, Str(<<83>>), Str(<<110>>))] >>, OutCap)

\* the peers: 127.0.0.1:80, a family ngx_sock_ntop does not format, an
\* unnamed unix socket, a unix socket bound to a path of 108 bytes 0xFF
SockAddrs ==
    { [family |-> "inet", addr |-> <<127, 0, 0, 1>>, port |-> 80, path |-> <<>>],
      [family |-> "unspec", addr |-> <<>>, port |-> 0, path |-> <<>>],
      [family |-> "unix", addr |-> <<>>, port |-> 0, path |-> [k \in 1..108 |-> 255]] }

---------------------------------------------------------------------------
(* The state machine: one action per call of the facade. *)

\* the record of the last call: the operation, its arguments, what it
\* returned, the list slots it read, the fault it ended in
Call(op, name, value, ret, reads, fault, alloc) ==
    [op |-> op, name |-> name, value |-> value, ret |-> ret,
     reads |-> reads, fault |-> fault, alloc |-> alloc]

NoCall == Call("none", <<>>, <<>>, None, <<>>, "none", "none")

\* a fault ends the worker process: nothing is called after it
Alive == last.fault = "none"

Init ==
    /\ headers_in \in SmallRequests
    /\ \E n \in 0..OutCap : headers_out = [headers |-> OutList(n)]
    /\ connection \in { [sockaddr |-> sa] : sa \in SockAddrs }
    /\ pool = <<>>
    /\ layout \in Layouts
    /\ last = NoCall

InitHeadersIn ==
    /\ headers_in \in WideRequests(InCap, MaxInParts)
    /\ headers_out = [headers |-> OutList(0)]
    /\ connection = [sockaddr |-> [family |-> "unspec", addr |-> <<>>, port |-> 0, path |-> <<>>]]
    /\ pool = <<>>
    /\ layout = <<"ptr", "cap", "len">>
    /\ last = NoCall

GetHeader ==
    /\ Alive
    /\ \E header \in Queries :
         \E o \in GetHeaderOutcomes(headers_in, header) :
            last' = Call("get_header", header, <<>>, o.ret, o.reads, o.fault, "none")
    /\ UNCHANGED <<headers_in, headers_out, connection, pool, layout>>

\* get_header_names walking the list set_header writes (mutant)
GetHeaderNames_Outbound ==
    /\ Alive
    /\ \E o \in HeaderNames(headers_out.headers) :
            last' = Call("get_header_names", <<>>, <<>>, o.ret, o.reads, o.fault, "none")
    /\ UNCHANGED <<headers_in, headers_out, connection, pool, layout>>

GetHeaderNames ==
    /\ Alive
    /\ \E o \in HeaderNames(headers_in.headers) :
            last' = Call("get_header_names", <<>>, <<>>, o.ret, o.reads, o.fault, "none")
    /\ UNCHANGED <<headers_in, headers_out, connection, pool, layout>>

UserAgent ==
    /\ Alive
    /\ LET o == UserAgentOutcome(headers_in)
       IN  last' = Call("user_agent", <<>>, <<>>, o.ret, o.reads, o.fault, "none")
    /\ UNCHANGED <<headers_in, headers_out, connection, pool, layout>>

SetHeader ==
    /\ Alive
    /\ Len(pool) + 2 <= MaxPool
    /\ \E a \in SetArgs, fail \in {"none", "name", "value", "list"} :
         /\ fail = "list" =>
                headers_out.headers.parts[headers_out.headers.last].nelts
                    = headers_out.headers.nalloc
         /\ LET r == SetHeaderResult(headers_out, pool, layout, a.name, a.value, fail)
            IN  /\ headers_out' = r.out
                /\ pool' = r.pool
                /\ last' = Call("set_header", a.name, a.value, None, <<>>, r.fault,
                                IF fail = "none" THEN "ok" ELSE "failed")
    /\ UNCHANGED <<headers_in, connection, layout>>

RemoteAddress ==
    /\ Alive
    /\ Len(pool) + 1 <= MaxPool
    /\ \E ok \in BOOLEAN :
         LET r == RemoteAddressResult(connection, pool, ok)
         IN  /\ pool' = r.pool
             /\ last' = Call("remote_address", r.text, <<>>, r.ret, <<>>, "none",
                             IF ok THEN "ok" ELSE "failed")
    /\ UNCHANGED <<headers_in, headers_out, connection, layout>>

Next == GetHeader \/ GetHeaderNames \/ UserAgent \/ SetHeader \/ RemoteAddress

Spec == Init /\ [][Next]_vars

NextHeadersIn == GetHeader \/ GetHeaderNames

SpecHeadersIn == InitHeadersIn /\ [][NextHeadersIn]_vars

---------------------------------------------------------------------------
(* What the properties are stated with. *)

RECURSIVE EltsFrom(_, _)
\* the entries of a list as the host finds them: from part p through the
\* next-links, each part's first nelts slots
EltsFrom(l, p) ==
    IF p = NULL THEN <<>>
    ELSE SubSeq(l.parts[p].elts, 1, l.parts[p].nelts) \o EltsFrom(l, l.parts[p].next)

\* the entries of a list, from its head part
ListElts(l) == EltsFrom(l, 1)

\* two names are the same up to ASCII case: same length, same folded bytes
SameName(a, b) == ToAsciiLowercase(a) = ToAsciiLowercase(b)

\* the positions of the entries of es whose whole name is name up to case
Matches(es, name) == { k \in 1..Len(es) : SameName(StrBytes(es[k].key), name) }

\* the least element of a non-empty set of numbers
Least(S) == CHOOSE k \in S : \A m \in S : k <= m

\* text t holds the text w
Includes(t, w) == \E i \in 1..(Len(t) + 1) :
    i + Len(w) - 1 <= Len(t) /\ SubSeq(t, i, i + Len(w) - 1) = w

\* every part a next-link leads to holds an entry, as in every list built by
\* ngx_list_push alone
NoEmptyLinkedPart(l) == \A p \in 2..Len(l.parts) : l.parts[p].nelts > 0

\* a list filled by ngx_list_push alone that needed more than one part:
\* every part but the last is full, and the last holds an entry
SpansParts(l) ==
    /\ Len(l.parts) > 1
    /\ \A p \in 1..(Len(l.parts) - 1) : l.parts[p].nelts = l.nalloc
    /\ l.parts[Len(l.parts)].nelts > 0

RECURSIVE NonEmptyNames(_)
\* the non-empty names of a sequence of entries, as texts, in order
NonEmptyNames(es) ==
    IF es = <<>> THEN <<>>
    ELSE (IF Head(es).key.len = 0 THEN <<>> ELSE <<Utf8Lossy(StrBytes(Head(es).key))>>)
         \o NonEmptyNames(Tail(es))

\* the call just made was a generic lookup that ran to its end
GenericLookup ==
    /\ last.op = "get_header"
    /\ last.fault = "none"
    /\ DedicatedField(ToAsciiLowercase(last.name)) = ""

XTest == <<88, 45, 84, 101, 115, 116>>

---------------------------------------------------------------------------
(* The claims. *)

\* C1: a set_header call that returns leaves the outbound list, walked from
\* its head part through the next-links, with every entry it held before, in
\* the same order, followed by exactly one new entry.
C1_SetHeaderAppends ==
    [][ (last'.op = "set_header" /\ last'.fault = "none" /\ pool' # pool)
        => LET before == ListElts(headers_out.headers)
               after  == ListElts(headers_out'.headers)
           IN  /\ Len(after) = Len(before) + 1
               /\ SubSeq(after, 1, Len(before)) = before ]_vars

\* C2 (as stated): get_header_names() called right after
\* set_header("X-Test", "v1") is present and its output includes "X-Test".
C2_NamesIncludeSetHeader ==
    [][ (/\ last.op = "set_header" /\ last.name = XTest /\ last.fault = "none"
         /\ last'.op = "get_header_names" /\ last'.fault = "none")
        => (last'.ret.some /\ Includes(last'.ret.val, XTest)) ]_vars

\* C2 (amended): set_header changes the outbound list only and leaves the
\* inbound list, the one get_header_names() walks, as it was; so on a request
\* whose inbound list is empty get_header_names() called right after
\* set_header("X-Test", "v1") is still absent.
C2_SetHeaderLeavesInbound ==
    [][ /\ (last'.op = "set_header" /\ pool' # pool) => headers_in' = headers_in
        /\ (/\ last.op = "set_header" /\ last.name = XTest /\ last.fault = "none"
            /\ last'.op = "get_header_names"
            /\ ListElts(headers_in.headers) = <<>>
            /\ Len(headers_in.headers.parts) = 1)
           => last'.ret = None ]_vars

\* C2 witness: get_header_names() has answered absent on a request with an
\* empty inbound list whose outbound list holds the entry of
\* set_header("X-Test", "v1").
C2_Witness ==
    /\ last.op = "get_header_names"
    /\ last.ret = None
    /\ ListElts(headers_in.headers) = <<>>
    /\ \E k \in 1..Len(ListElts(headers_out.headers)) :
          /\ ListElts(headers_out.headers)[k].key.len = Len(XTest)
          /\ ListElts(headers_out.headers)[k].value.len = 2

\* C3: on a list without empty linked parts, a generic get_header(name)
\* returns the value of the first entry, in list order, whose whole name is
\* the queried name up to ASCII case, and absent when there is none.  (For a
\* matched empty value either absent or the empty text is accepted here.)
C3_FirstWholeNameMatch ==
    (GenericLookup /\ NoEmptyLinkedPart(headers_in.headers))
    => LET es == ListElts(headers_in.headers)
           m  == Matches(es, last.name)
       IN  IF m = {}
           THEN last.ret = None
           ELSE LET v == Utf8Lossy(StrBytes(es[Least(m)].value))
                IN  \/ last.ret = Some(v)
                    \/ (v = <<>> /\ last.ret = None)

\* C4: get_header never returns a present empty text, whether the name is
\* served from a dedicated field or found by the scan of the list.
C4_EmptyValueIsAbsent ==
    (last.op = "get_header" /\ last.fault = "none")
    => ~(last.ret.some /\ last.ret.val = <<>>)

\* C5: after set_header(name, value) the appended entry, the last of the
\* list, has hash 1, a key view of len(name) bytes that are the bytes of name
\* and a value view of len(value) bytes that are the bytes of value, both
\* pointing at blocks of the pool.
C5_EntryHoldsNameAndValue ==
    (last.op = "set_header" /\ last.fault = "none")
    => LET es == ListElts(headers_out.headers)
           e  == es[Len(es)]
       IN  /\ e.hash = 1
           /\ e.key.len = Len(last.name)
           /\ StrBytes(e.key) = last.name
           /\ e.value.len = Len(last.value)
           /\ StrBytes(e.value) = last.value
           /\ \E k \in 1..Len(pool) : pool[k].bytes = e.key.data
           /\ \E k \in 1..Len(pool) : pool[k].bytes = e.value.data

\* C6: on an inbound list that spans several parts, get_header_names lists
\* the non-empty name of every entry of every part in list order, and
\* get_header of a generic name that only entries after the first part carry
\* returns the value of the first of them.
C6_AllPartsTraversed ==
    SpansParts(headers_in.headers)
    => LET l     == headers_in.headers
           es    == ListElts(l)
           names == NonEmptyNames(es)
           m     == Matches(es, last.name)
       IN  /\ (last.op = "get_header_names" /\ last.fault = "none")
               => last.ret = IF names = <<>> THEN None ELSE Some(Join(names))
           /\ (GenericLookup /\ m # {} /\ Least(m) > l.parts[1].nelts)
               => last.ret = Some(Utf8Lossy(StrBytes(es[Least(m)].value)))

\* C7: two get_header calls, one after the other on the same request, with
\* names that are equal up to ASCII case return the same result (stated on
\* lists without empty linked parts).
C7_CaseInsensitiveQuery ==
    [][ (/\ last.op = "get_header" /\ last.fault = "none"
         /\ last'.op = "get_header" /\ last'.fault = "none"
         /\ SameName(last.name, last'.name)
         /\ NoEmptyLinkedPart(headers_in.headers))
        => last'.ret = last.ret ]_vars

\* C8 (as stated): remote_address() is absent, with no fault, when the buffer
\* allocation fails, absent when the address is formatted to zero length,
\* and otherwise returns the formatted text, of at most IP_MAX_LEN bytes.
C8_RemoteAddressText ==
    last.op = "remote_address"
    => /\ last.fault = "none"
       /\ last.alloc = "failed" => last.ret = None
       /\ (last.alloc = "ok" /\ last.name = <<>>) => last.ret = None
       /\ (last.alloc = "ok" /\ last.name # <<>>)
           => /\ last.ret = Some(last.name)
              /\ Len(last.ret.val) <= IP_MAX_LEN

\* C8 (amended): remote_address() is absent, with no fault, when the buffer
\* allocation fails, absent when the address is formatted to zero length,
\* and otherwise returns the formatted bytes as text: of the at most
\* IP_MAX_LEN bytes formatted, each byte that is not UTF-8 is given as the
\* three bytes of U+FFFD, so the result is the formatted text itself, of at
\* most IP_MAX_LEN bytes, when that text is ASCII, and is at most three
\* times as long otherwise.
C8_RemoteAddressLossyText ==
    last.op = "remote_address"
    => /\ last.fault = "none"
       /\ last.alloc = "failed" => last.ret = None
       /\ (last.alloc = "ok" /\ last.name = <<>>) => last.ret = None
       /\ (last.alloc = "ok" /\ last.name # <<>>)
           => /\ last.ret.some
              /\ Len(last.name) <= IP_MAX_LEN
              /\ Len(last.ret.val) >= Len(last.name)
              /\ Len(last.ret.val) <= 3 * Len(last.name)
              /\ (\A k \in 1..Len(last.name) : last.name[k] < 128)
                  => last.ret.val = last.name

\* C8 witness: remote_address() has returned a text for a peer address with
\* bytes that are not UTF-8, and the text is longer than the buffer.
C8_Witness ==
    /\ last.op = "remote_address"
    /\ last.alloc = "ok"
    /\ last.ret.some
    /\ \E k \in 1..Len(last.name) : last.name[k] >= 128
    /\ Len(last.ret.val) > IP_MAX_LEN

\* C9: both walks read a slot of a part only at an index below the number of
\* entries of that part.
C9_ReadsBelowCount ==
    (last.op \in {"get_header", "get_header_names"})
    => \A k \in 1..Len(last.reads) : last.reads[k].index < last.reads[k].nelts

\* C10: user_agent() does not read through a null field pointer.
C10_UserAgentNoNullRead ==
    last.op = "user_agent" => last.fault # "null_deref"

===========================================================================
